---------------------------- MODULE Spec2Model ----------------------------
(***************************************************************************)
(* A model of the Searchbase SDK (class SearchbaseSDK): the request body   *)
(* built by search, the error normalisation of fetchWithErrorHandling, and *)
(* the auto-pagination generator searchAll together with its consumer and  *)
(* the remote search service.                                              *)
(***************************************************************************)
EXTENDS Integers, Sequences, FiniteSets, TLC

VARIABLES
    \* ---- one direct call of search(options) ----
    sPc,          \* "idle" | "called" | "awaiting" | "settled"
    sOptions,     \* the SearchOptions passed to search
    sBody,        \* the request body handed to fetch
    sBodyLegacy,  \* the request body as the older src/index.ts builds it
    sTransport,   \* what fetch and response.json() did
    sResult,      \* how the promise returned by search settled
    \* ---- one searchAll traversal and its consumer ----
    options,      \* the caller's options (no limit, no offset)
    pc,           \* generator state: "suspendedStart" | "awaiting" |
                  \*                  "suspendedYield" | "completed"
    offset,       \* let offset
    totalFetched, \* let totalFetched
    total,        \* let total: number | undefined
    response,     \* const response of the current loop iteration
    request,      \* the latest call of search made by the generator
    prevEnd,      \* range.end of the response before the latest request
    delivered,    \* concatenation of the batches the consumer received
    nbatches,     \* number of batches the consumer received (saturating)
    nreq,         \* number of page requests issued (saturating)
    nok,          \* number of page fetches that succeeded (saturating)
    lastPull,     \* what the consumer's latest call on the generator gave
    closed,       \* "no", or how the consumer ended the traversal early:
                  \* "return" (return(), break out of for await) or "throw"
    error,        \* the error the consumer's next() rejected with
    server,       \* "any": arbitrary responses; "fixed": a fixed result set;
                  \* "bounded": non-empty pages with totals up to N
    N,            \* size of the fixed result set
    \* ---- two searchAll traversals on one SDK instance ----
    tr            \* per traversal: its generator's locals and its history

searchVars == <<sPc, sOptions, sBody, sBodyLegacy, sTransport, sResult>>
travVars == <<options, pc, offset, totalFetched, total, response, request,
              prevEnd, delivered, nbatches, nreq, nok, lastPull, error,
              server, N, closed>>
concVars == <<tr>>
vars == <<sPc, sOptions, sBody, sBodyLegacy, sTransport, sResult,
          options, pc, offset, totalFetched, total, response, request,
          prevEnd, delivered, nbatches, nreq, nok, lastPull, error,
          server, N, closed, tr>>

(***************************************************************************)
(* Bounds of the model.                                                    *)
(***************************************************************************)
\* largest fixed result set
MaxN == 3
\* largest total an unconstrained service reports
MaxTotal == 2
\* largest range.end an unconstrained service reports
MaxEnd == 1
\* largest number of records in one page
MaxPageLen == 2
\* the request, batch and success counters stop counting here
MaxCount == 3

(***************************************************************************)
(* JavaScript values: a tag and, where there is one, a payload.            *)
(***************************************************************************)
Undef == [t |-> "undefined"]
Null == [t |-> "null"]
Num(n) == [t |-> "number", v |-> n]
Str(s) == [t |-> "string", v |-> s]
Arr(s) == [t |-> "array", v |-> s]

\* ToBoolean, as && and || apply it
Truthy(x) ==
    CASE x.t = "undefined" -> FALSE
      [] x.t = "null" -> FALSE
      [] x.t = "number" -> x.v # 0
      [] x.t = "string" -> x.v # ""
      [] OTHER -> TRUE

\* x ?? d
CoalesceToBatch(x, d) == IF x.t \in {"undefined", "null"} THEN 100 ELSE x.v
Coalesce(x, d) == IF x.t \in {"undefined", "null"} THEN d ELSE x.v

Min(a, b) == IF a < b THEN a ELSE b

\* the records at positions s+1 .. s+k of the result set, named by position
Slice(s, k) == [i \in 1..k |-> s + i]

(***************************************************************************)
(* search: the request body.                                               *)
(***************************************************************************)
\* `...(options.offset && options.offset > 0 && { offset })`; the older
\* src/index.ts has `options.offset && { offset }` and differs for negative
\* offsets only
OffsetSpread(o) == Truthy(o) /\ o.v > 0

\* src/index.ts: `...(options.offset && { offset: options.offset })`
OffsetSpreadLegacy(o) == Truthy(o)

\* `...(options.k && { k: options.k })` for filters, sort, select, limit
FieldSpreadNonEmpty(x) == Truthy(x) /\ (x.t = "array" => Len(x.v) > 0)
FieldSpread(x) == Truthy(x)

\* the keys of body.query
QueryKeys(o) ==
    {"index"}
        \cup {k \in {"filters", "sort", "select", "limit"} : FieldSpread(o[k])}
        \cup (IF OffsetSpread(o.offset) THEN {"offset"} ELSE {})

\* const body = { query: { ... } }
Body(o) == [query |-> [k \in QueryKeys(o) |-> o[k]]]

\* the same in src/index.ts
QueryKeysLegacy(o) ==
    {"index"}
        \cup {k \in {"filters", "sort", "select", "limit"} : FieldSpread(o[k])}
        \cup (IF OffsetSpreadLegacy(o.offset) THEN {"offset"} ELSE {})

BodyLegacy(o) == [query |-> [k \in QueryKeysLegacy(o) |-> o[k]]]

\* the offset a request asks for on the wire: absent means 0
WireOffset(b) ==
    IF "offset" \in DOMAIN b.query THEN b.query.offset.v ELSE 0

(***************************************************************************)
(* fetchWithErrorHandling and search: how a call settles, given what the   *)
(* transport did.  A transport outcome is either                           *)
(*   [kind |-> "reject", message]           fetch threw, no HTTP response  *)
(*   [kind |-> "response", ok, status, json] an HTTP response, where json  *)
(*      is what response.json() does: [throws |-> TRUE, message] or        *)
(*      [throws |-> FALSE, value].                                         *)
(***************************************************************************)
Throw(name, message) == [kind |-> "throw", name |-> name, message |-> message]
Return(value) == [kind |-> "return", value |-> value]

NetworkPrefix == "Network error: "
HttpPrefix == "HTTP error! status: "
\* the TypeError of reading .message of null
NullMessageError == "Cannot read properties of null (reading 'message')"

\* `errorData.message || `HTTP error! status: ${response.status}``
ErrorMessageUnchecked(data, status) ==
    IF "message" \in DOMAIN data.v /\ data.v.message.t = "string"
    THEN data.v.message.v
    ELSE HttpPrefix \o ToString(status)
ErrorMessage(data, status) ==
    IF "message" \in DOMAIN data.v /\ Truthy(data.v.message)
    THEN data.v.message.v
    ELSE HttpPrefix \o ToString(status)

\* the try block
TryFetch(t) ==
    IF t.kind = "reject" THEN Throw("Error", t.message)
    ELSE IF ~t.ok THEN
        IF t.json.throws THEN Throw("SyntaxError", t.json.message)
        ELSE IF t.json.value.t = "null" THEN Throw("TypeError", NullMessageError)
        ELSE Throw("SearchError", ErrorMessage(t.json.value, t.status))
    ELSE Return(t)

\* the catch block
CatchWrapAll(e) == Throw("SearchError", NetworkPrefix \o e.message)
Catch(e) ==
    IF e.name = "SearchError" THEN e
    ELSE Throw("SearchError", NetworkPrefix \o e.message)

fetchWithErrorHandling(t) ==
    LET r == TryFetch(t) IN IF r.kind = "throw" THEN Catch(r) ELSE r

\* `const data = await response.json(); return data`
searchRecordsOnly(t) ==
    LET r == fetchWithErrorHandling(t) IN
    IF r.kind = "throw" THEN r
    ELSE IF t.json.throws THEN Throw("SyntaxError", t.json.message)
    ELSE Return([t.json.value EXCEPT !.total = Num(Len(t.json.value.records))])
search(t) ==
    LET r == fetchWithErrorHandling(t) IN
    IF r.kind = "throw" THEN r
    ELSE IF t.json.throws THEN Throw("SyntaxError", t.json.message)
    ELSE Return(t.json.value)

(***************************************************************************)
(* The inputs of a direct call of search.                                  *)
(***************************************************************************)
IndexName == "test-index"
AFilter == [field |-> "category", op |-> "==", value |-> "test"]
ASort == [field |-> "createdAt", direction |-> "DESC"]

ArrayInputs(x) == {Undef, Arr(<<>>), Arr(<<x>>)}

QueryInputs ==
    [index : {Str(IndexName)},
     filters : ArrayInputs(AFilter),
     sort : ArrayInputs(ASort),
     select : ArrayInputs("title"),
     limit : {Undef, Num(0), Num(10)},
     offset : {Undef, Num(0), Num(2), Num(-1)}]

Obj(fields) == [t |-> "object", v |-> fields]

\* bodies of a failure response: with a message, with an empty one, without
\* one, the JSON value null, and a body that is not JSON
ErrorJson ==
    {[throws |-> FALSE, value |-> Obj([message |-> Str("index not found")])],
     [throws |-> FALSE, value |-> Obj([message |-> Str("")])],
     [throws |-> FALSE, value |-> Obj([code |-> Num(7)])],
     [throws |-> FALSE, value |-> Null],
     [throws |-> TRUE, message |-> "Unexpected token < in JSON at position 0"]}

SearchResponse(tot, start, end, recs) ==
    [total |-> tot, range |-> [start |-> start, end |-> end], records |-> recs]

NotJson == [throws |-> TRUE, message |-> "Unexpected end of JSON input"]

Rejections ==
    {[kind |-> "reject", message |-> "connect ECONNREFUSED"]}

FailureResponses ==
    {[kind |-> "response", ok |-> FALSE, status |-> s, json |-> j] :
        s \in {404, 500}, j \in ErrorJson}

UndecodableSuccess ==
    {[kind |-> "response", ok |-> TRUE, status |-> 200, json |-> NotJson]}

Success(data) ==
    [kind |-> "response", ok |-> TRUE, status |-> 200,
     json |-> [throws |-> FALSE, value |-> data]]

\* every way a fetch can fail to deliver a decoded success body
Failures == Rejections \cup FailureResponses \cup UndecodableSuccess

\* the failures met during a traversal: one of each kind
PageFailures ==
    Rejections \cup UndecodableSuccess
        \cup {t \in FailureResponses :
                /\ t.status = 500
                /\ \/ t.json.throws
                   \/ t.json.value = Obj([message |-> Str("index not found")])}

DirectSuccesses ==
    {Success(SearchResponse(Num(tot), 0, k, Slice(0, k))) :
        tot \in {0, 1}, k \in 0..1}

Idle == [kind |-> "none"]

(***************************************************************************)
(* A direct call of search.                                                *)
(***************************************************************************)
TravInit ==
    /\ pc = "suspendedStart"
    /\ offset = 0
    /\ totalFetched = 0
    /\ total = Undef
    /\ response = Idle
    /\ request = Idle
    /\ prevEnd = 0
    /\ delivered = <<>>
    /\ nbatches = 0
    /\ nreq = 0
    /\ nok = 0
    /\ lastPull = "none"
    /\ closed = "no"
    /\ error = Idle

SearchInit ==
    /\ sPc = "called"
    /\ sOptions \in QueryInputs
    /\ sBody = Idle
    /\ sBodyLegacy = Idle
    /\ tr = <<>>
    /\ sTransport = Idle
    /\ sResult = Idle
    /\ options = [index |-> Str(IndexName), filters |-> Undef,
                  sort |-> Undef, select |-> Undef]
    /\ server = "any"
    /\ N = 0
    /\ TravInit

\* search builds the body and awaits fetch
SearchCall ==
    /\ sPc = "called"
    /\ sBody' = Body(sOptions)
    /\ sBodyLegacy' = BodyLegacy(sOptions)
    /\ sPc' = "awaiting"
    /\ UNCHANGED <<sOptions, sTransport, sResult>>
    /\ UNCHANGED <<travVars, concVars>>

\* the transport settles and search settles with it
SearchSettle ==
    /\ sPc = "awaiting"
    /\ \E t \in Failures \cup DirectSuccesses :
        /\ sTransport' = t
        /\ sResult' = search(t)
    /\ sPc' = "settled"
    /\ UNCHANGED <<sOptions, sBody, sBodyLegacy>>
    /\ UNCHANGED <<travVars, concVars>>

SearchNext == SearchCall \/ SearchSettle

SearchSpec == SearchInit /\ [][SearchNext]_vars


(***************************************************************************)
(* searchAll: the generator's locals and loop.                             *)
(***************************************************************************)
\* const batchSize = 100
batchSize == 100

\* the counters of requests, batches and successes count up to MaxCount
Bump(n) == IF n < MaxCount THEN n + 1 ELSE n

\* `{ ...options, limit: batchSize, offset }`
PageOptionsIndexOnly(o, off) ==
    [index |-> o.index, filters |-> Undef, sort |-> Undef,
     select |-> Undef, limit |-> Num(batchSize), offset |-> Num(off)]
PageOptions(o, off) ==
    [index |-> o.index, filters |-> o.filters, sort |-> o.sort,
     select |-> o.select, limit |-> Num(batchSize), offset |-> Num(off)]

\* `totalFetched += response.records.length`
NextTotalFetchedAssign(tf, resp) == Len(resp.records)
NextTotalFetched(tf, resp) == tf + Len(resp.records)

\* `offset = response.range.end`
NextOffsetByBatchSize(off, resp) == off + batchSize
NextOffset(off, resp) == resp.range.end

\* `while (totalFetched < (total ?? 0))`
ContinueInclusive(tf, tot) == tf <= Coalesce(tot, 0)
ContinueOffByOne(tf, tot) == tf + 1 < Coalesce(tot, 0)
Continue(tf, tot) == tf < Coalesce(tot, 0)

(***************************************************************************)
(* The search service.                                                     *)
(***************************************************************************)
\* the totals a response may carry: a number, or none at all
Totals == {Undef, Null} \cup {Num(n) : n \in 0..MaxTotal}

\* a service bound by nothing but the shape of a response: it answers a
\* request at offset o with any number of records (numbered in the order
\* the service sends them), any range.end and any total
AnyPages(b, sent) ==
    {SearchResponse(tot, WireOffset(b), e, Slice(sent, k)) :
        tot \in Totals, e \in 0..MaxEnd, k \in 0..MaxPageLen}

\* a service holding the fixed result set 1..n: a request at offset o gets a
\* non-empty contiguous slice starting at o, no longer than the limit, with
\* range.end = o + its length and total = n (nothing is left at o >= n)
FixedPages(n, b) ==
    LET o == WireOffset(b)
        room == Min(b.query.limit.v, Min(n - o, MaxPageLen))
    IN  IF o < n
        THEN {SearchResponse(Num(n), o, o + k, Slice(o, k)) : k \in 1..room}
        ELSE {SearchResponse(Num(n), o, o, <<>>)}

\* a service that answers every request with at least one record and never
\* reports a total above n
BoundedPages(n, b, sent) ==
    {p \in AnyPages(b, sent) :
        Len(p.records) >= 1 /\ p.total.t = "number" /\ p.total.v <= n}

Pages(b) ==
    CASE server = "fixed" -> FixedPages(N, b)
      [] server = "bounded" -> BoundedPages(N, b, Len(delivered))
      [] OTHER -> AnyPages(b, Len(delivered))

(***************************************************************************)
(* A searchAll traversal driven by its consumer.                           *)
(***************************************************************************)
TraversalOptions ==
    {[index |-> Str(IndexName), filters |-> Undef, sort |-> Undef,
      select |-> Undef],
     [index |-> Str(IndexName), filters |-> Arr(<<AFilter>>),
      sort |-> Arr(<<ASort>>), select |-> Arr(<<>>)]}

Init ==
    /\ sPc = "idle"
    /\ sOptions = Idle
    /\ sBody = Idle
    /\ sBodyLegacy = Idle
    /\ tr = <<>>
    /\ sTransport = Idle
    /\ sResult = Idle
    /\ options \in TraversalOptions
    /\ \/ server = "any" /\ N = 0
       \/ server = "fixed" /\ N \in 1..MaxN
       \/ server = "bounded" /\ N \in 0..MaxTotal
    /\ TravInit

\* `await this.search({ ...options, limit: batchSize, offset })`, up to the
\* call of fetch
IssueRequestTwice(off) ==
    /\ request' = [options |-> PageOptions(options, off),
                   body |-> Body(PageOptions(options, off))]
    /\ nreq' = Bump(Bump(nreq))
    /\ pc' = "awaiting"
    /\ lastPull' = "pending"
IssueRequest(off) ==
    /\ request' = [options |-> PageOptions(options, off),
                   body |-> Body(PageOptions(options, off))]
    /\ nreq' = Bump(nreq)
    /\ pc' = "awaiting"
    /\ lastPull' = "pending"

\* the consumer's first next(): the generator runs to its first await
PullStart ==
    /\ pc = "suspendedStart"
    /\ IssueRequest(offset)
    /\ UNCHANGED <<offset, totalFetched, total, response, prevEnd, delivered,
                   nbatches, nok, error, server, N, options,
                   closed>>
    /\ UNCHANGED <<searchVars, concVars>>

\* next() after a batch: the generator resumes behind the yield, does its
\* bookkeeping, finds the loop condition true and requests the next page
PullMore ==
    /\ pc = "suspendedYield"
    /\ totalFetched' = NextTotalFetched(totalFetched, response)
    /\ offset' = NextOffset(offset, response)
    /\ total' = response.total
    /\ Continue(totalFetched', total')
    /\ IssueRequest(offset')
    /\ prevEnd' = response.range.end
    /\ UNCHANGED <<response, delivered, nbatches, nok, error, server, N,
                   options, closed>>
    /\ UNCHANGED <<searchVars, concVars>>

\* next() after a batch: the loop condition is false and the generator
\* returns
PullDone ==
    /\ pc = "suspendedYield"
    /\ totalFetched' = NextTotalFetched(totalFetched, response)
    /\ offset' = NextOffset(offset, response)
    /\ total' = response.total
    /\ ~Continue(totalFetched', total')
    /\ pc' = "completed"
    /\ lastPull' = "done"
    /\ UNCHANGED <<response, request, prevEnd, delivered, nbatches, nreq, nok,
                   error, server, N, options,
                   closed>>
    /\ UNCHANGED <<searchVars, concVars>>

\* next() or return() on a completed generator: done, nothing runs
PullCompleted ==
    /\ pc = "completed"
    /\ lastPull' = "done"
    /\ UNCHANGED <<pc, offset, totalFetched, total, response, request, prevEnd,
                   delivered, nbatches, nreq, nok, error, server, N, options,
                   closed>>
    /\ UNCHANGED <<searchVars, concVars>>

Pull == PullStart \/ PullMore \/ PullDone \/ PullCompleted

\* return() on the generator suspended at its start or at the yield (what
\* leaving a `for await` loop early does): the generator completes there,
\* the statements behind the yield never run, and the call gives done.  A
\* call made while a next() is pending waits for it to settle, and one on a
\* completed generator gives done as next() does there (PullCompleted).
GenReturn ==
    /\ pc \in {"suspendedStart", "suspendedYield"}
    /\ pc' = "completed"
    /\ closed' = "return"
    /\ lastPull' = "done"
    /\ UNCHANGED <<offset, totalFetched, total, response, request, prevEnd,
                   delivered, nbatches, nreq, nok, error, server, N, options>>
    /\ UNCHANGED <<searchVars, concVars>>

\* throw(e): on the suspended generator e is thrown at the start or at the
\* yield, nothing in searchAll catches it and the generator completes; on
\* a completed generator nothing runs.  Either way the call rejects with
\* the consumer's own e.
GenThrow ==
    /\ pc \in {"suspendedStart", "suspendedYield", "completed"}
    /\ pc' = "completed"
    /\ closed' = IF pc = "completed" THEN closed ELSE "throw"
    /\ lastPull' = "thrown"
    /\ UNCHANGED <<offset, totalFetched, total, response, request, prevEnd,
                   delivered, nbatches, nreq, nok, error, server, N, options>>
    /\ UNCHANGED <<searchVars, concVars>>

Close == GenReturn \/ GenThrow

\* the awaited search settles after the transport did t: a decoded response
\* is yielded as one batch, an error leaves the generator through next()
SettleRetry(t) ==
    LET r == search(t) IN
    IF r.kind = "return"
    THEN /\ response' = r.value
         /\ delivered' = delivered \o r.value.records
         /\ nbatches' = Bump(nbatches)
         /\ nok' = Bump(nok)
         /\ pc' = "suspendedYield"
         /\ lastPull' = "batch"
         /\ UNCHANGED <<nreq, error>>
    ELSE /\ error' = r
         /\ nreq' = Bump(nreq)
         /\ UNCHANGED <<pc, lastPull, response, delivered, nbatches, nok>>
SettleSkipEmpty(t) ==
    LET r == search(t) IN
    IF r.kind = "return"
    THEN /\ response' = r.value
         /\ delivered' = delivered \o r.value.records
         /\ nbatches' = IF r.value.records = <<>> THEN nbatches
                        ELSE Bump(nbatches)
         /\ nok' = Bump(nok)
         /\ pc' = "suspendedYield"
         /\ lastPull' = "batch"
         /\ UNCHANGED <<nreq, error>>
    ELSE /\ error' = r
         /\ pc' = "completed"
         /\ lastPull' = "error"
         /\ UNCHANGED <<nreq, response, delivered, nbatches, nok>>
Settle(t) ==
    LET r == search(t) IN
    IF r.kind = "return"
    THEN /\ response' = r.value
         /\ delivered' = delivered \o r.value.records
         /\ nbatches' = Bump(nbatches)
         /\ nok' = Bump(nok)
         /\ pc' = "suspendedYield"
         /\ lastPull' = "batch"
         /\ UNCHANGED <<nreq, error>>
    ELSE /\ error' = r
         /\ pc' = "completed"
         /\ lastPull' = "error"
         /\ UNCHANGED <<nreq, response, delivered, nbatches, nok>>

\* the service answers the request in flight with a page
PageArrives ==
    /\ pc = "awaiting"
    /\ \E data \in Pages(request.body) : Settle(Success(data))
    /\ UNCHANGED <<offset, totalFetched, total, request, prevEnd, server, N,
                   options, closed>>
    /\ UNCHANGED <<searchVars, concVars>>

\* the request in flight fails
PageFails ==
    /\ pc = "awaiting"
    /\ \E t \in PageFailures : Settle(t)
    /\ UNCHANGED <<offset, totalFetched, total, request, prevEnd, server, N,
                   options, closed>>
    /\ UNCHANGED <<searchVars, concVars>>

Respond == PageArrives \/ PageFails

Next == PullStart \/ PullMore \/ PullDone \/ PullCompleted
            \/ GenReturn \/ GenThrow
            \/ PageArrives \/ PageFails

Spec == Init /\ [][Next]_vars

\* a fully consumed traversal: the consumer keeps pulling (unless it ends
\* the traversal itself) and the transport settles every request
FairSpec == Spec /\ WF_vars(Pull) /\ WF_vars(Respond)

(***************************************************************************)
(* Two searchAll traversals on one SDK instance, interleaved at their      *)
(* awaits and yields.                                                      *)
(***************************************************************************)
Travs == {1, 2}

\* `let offset = 0; let totalFetched = 0; let total`: the locals a
\* traversal's steps read and write are those of its own generator
OwnerShared(i) == 1
Owner(i) == i

\* a generator object fresh from searchAll(options), with the requests it
\* issued, the batches it yielded and the settlements of its own requests
NewTraversal(o) ==
    [options |-> o, pc |-> "suspendedStart", offset |-> 0,
     totalFetched |-> 0, total |-> Undef, response |-> Idle,
     reqs |-> <<>>, batches |-> <<>>, hist |-> <<>>, closed |-> "no"]

\* what the service may answer to one traversal's request: a non-empty
\* page whose total and range.end are the service's choice
ConcPages(b) ==
    {SearchResponse(tot, WireOffset(b),
                    IF back THEN 0 ELSE WireOffset(b) + k,
                    Slice(WireOffset(b), k)) :
        tot \in {Undef, Num(1), Num(MaxTotal)},
        back \in BOOLEAN,
        k \in {1, MaxPageLen}}

ConcInit ==
    /\ sPc = "idle"
    /\ sOptions = Idle
    /\ sBody = Idle
    /\ sBodyLegacy = Idle
    /\ sTransport = Idle
    /\ sResult = Idle
    /\ options = Idle
    /\ server = "none"
    /\ N = 0
    /\ TravInit
    /\ tr \in [Travs -> {NewTraversal(o) : o \in TraversalOptions}]

\* first next() of traversal i
ConcPullStart(i) ==
    LET j == Owner(i) IN
    /\ tr[i].pc = "suspendedStart"
    /\ tr' = [tr EXCEPT
                ![i].pc = "awaiting",
                ![i].reqs = Append(@, Body(PageOptions(tr[i].options,
                                                       tr[j].offset)))]
    /\ UNCHANGED <<searchVars, travVars>>

\* a further next() of traversal i: bookkeeping, loop test, next request
ConcPullMore(i) ==
    LET j == Owner(i)
        tf == NextTotalFetched(tr[j].totalFetched, tr[i].response)
        off == NextOffset(tr[j].offset, tr[i].response)
        tot == tr[i].response.total
    IN  /\ tr[i].pc = "suspendedYield"
        /\ Continue(tf, tot)
        /\ tr' = [tr EXCEPT
                    ![j].totalFetched = tf,
                    ![j].offset = off,
                    ![j].total = tot,
                    ![i].pc = "awaiting",
                    ![i].reqs = Append(@, Body(PageOptions(tr[i].options,
                                                           off)))]
        /\ UNCHANGED <<searchVars, travVars>>

\* a further next() of traversal i that ends the loop
ConcPullDone(i) ==
    LET j == Owner(i)
        tf == NextTotalFetched(tr[j].totalFetched, tr[i].response)
        off == NextOffset(tr[j].offset, tr[i].response)
        tot == tr[i].response.total
    IN  /\ tr[i].pc = "suspendedYield"
        /\ ~Continue(tf, tot)
        /\ tr' = [tr EXCEPT
                    ![j].totalFetched = tf,
                    ![j].offset = off,
                    ![j].total = tot,
                    ![i].pc = "completed"]
        /\ UNCHANGED <<searchVars, travVars>>

\* the search awaited by traversal i settles after the transport did t
ConcSettle(i, t) ==
    LET r == search(t) IN
    /\ tr' = [tr EXCEPT
                ![i].hist = Append(@, r),
                ![i].pc = IF r.kind = "return" THEN "suspendedYield"
                          ELSE "completed",
                ![i].response = IF r.kind = "return" THEN r.value ELSE @,
                ![i].batches = IF r.kind = "return"
                               THEN Append(@, r.value.records) ELSE @]
    /\ UNCHANGED <<searchVars, travVars>>

ConcPageArrives(i) ==
    /\ tr[i].pc = "awaiting"
    /\ \E data \in ConcPages(tr[i].reqs[Len(tr[i].reqs)]) :
            ConcSettle(i, Success(data))

ConcPageFails(i) ==
    /\ tr[i].pc = "awaiting"
    /\ \E t \in PageFailures : ConcSettle(i, t)

\* return() or throw() of its consumer on traversal i, suspended at its
\* start or at a yield
ConcClose(i, how) ==
    /\ tr[i].pc \in {"suspendedStart", "suspendedYield"}
    /\ tr' = [tr EXCEPT ![i].pc = "completed", ![i].closed = how]
    /\ UNCHANGED <<searchVars, travVars>>

ConcReturn(i) == ConcClose(i, "return")

ConcThrow(i) == ConcClose(i, "throw")

ConcNext ==
    \E i \in Travs :
        \/ ConcPullStart(i)
        \/ ConcPullMore(i)
        \/ ConcPullDone(i)
        \/ ConcReturn(i)
        \/ ConcThrow(i)
        \/ ConcPageArrives(i)
        \/ ConcPageFails(i)

ConcSpec == ConcInit /\ [][ConcNext]_vars

(***************************************************************************)
(* Claims about search, checked under SearchSpec.                          *)
(***************************************************************************)
Settled == sPc = "settled"
FailureStatus == Settled /\ sTransport.kind = "response" /\ ~sTransport.ok
StartsWith(s, prefix) ==
    Len(s) >= Len(prefix) /\ SubSeq(s, 1, Len(prefix)) = prefix

\* the failure response's body is a JSON object whose message is m
MessageIs(m) ==
    /\ FailureStatus
    /\ ~sTransport.json.throws
    /\ sTransport.json.value.t = "object"
    /\ "message" \in DOMAIN sTransport.json.value.v
    /\ sTransport.json.value.v.message = m

\* the failure response's body is a JSON object without a message
MessageMissing ==
    /\ FailureStatus
    /\ ~sTransport.json.throws
    /\ sTransport.json.value.t = "object"
    /\ "message" \notin DOMAIN sTransport.json.value.v

\* response.json() threw
Undecodable ==
    Settled /\ sTransport.kind = "response" /\ sTransport.json.throws

GenericMessage == HttpPrefix \o ToString(sTransport.status)

\* C7: every failure of search reaches the caller as a SearchError: a
\* failure status, a transport failure without a response, and a body that
\* cannot be decoded (on a success or a failure status); the transport and
\* decoding ones with the message "Network error: " + the original message.
C7_EveryFailureIsSearchError ==
    (Settled /\ sTransport \in Failures) =>
        /\ sResult.kind = "throw"
        /\ sResult.name = "SearchError"
        /\ sTransport.kind = "reject" =>
              sResult.message = NetworkPrefix \o sTransport.message
        /\ Undecodable =>
              sResult.message = NetworkPrefix \o sTransport.json.message

\* C8 as stated: a failure status whose body has no usable message (missing,
\* empty, or not JSON at all) gives the generic HTTP-error message.
C8_NoMessageGivesGeneric ==
    (FailureStatus /\ (MessageMissing \/ MessageIs(Str("")) \/ Undecodable)) =>
        sResult = Throw("SearchError", GenericMessage)

\* C8 amended: a failure status whose body is a JSON object with a missing
\* or empty message gives the generic HTTP-error message with the status
\* code; a body that is not JSON gives "Network error: " followed by the
\* decoding error's message.
C8_GenericOnlyForJsonObjects ==
    /\ (MessageMissing \/ MessageIs(Str(""))) =>
          /\ sResult = Throw("SearchError", GenericMessage)
          /\ ~StartsWith(sResult.message, NetworkPrefix)
    /\ (FailureStatus /\ Undecodable) =>
          sResult = Throw("SearchError",
                          NetworkPrefix \o sTransport.json.message)

C8_Witness ==
    /\ MessageMissing
    /\ sTransport.status = 500
    /\ sResult.message = "HTTP error! status: 500"

\* C9: a failure status whose JSON body has a non-empty message fails with
\* a SearchError whose message is exactly that message.
C9_MessageFromBody ==
    \A m \in {"index not found"} :
        MessageIs(Str(m)) => sResult = Throw("SearchError", m)

C9_Witness ==
    /\ MessageIs(Str("index not found"))
    /\ sTransport.status = 500
    /\ sResult.name = "SearchError"
    /\ sResult.message = "index not found"

ArrayKeys == {"filters", "sort", "select"}
BodyBuilt == sPc \in {"awaiting", "settled"}

\* C10 as stated: the query object has filters, sort and select only when
\* the input is present and non-empty; an empty array leaves the key out.
C10_EmptyArraysOmitted ==
    BodyBuilt =>
        \A k \in ArrayKeys :
            k \in DOMAIN sBody.query <=>
                (sOptions[k].t = "array" /\ Len(sOptions[k].v) > 0)

\* C10 amended: the query object has filters, sort and select exactly when
\* the input is present, with the input's value; an empty array is present
\* and is sent as an empty array.
C10_PresentArraysSent ==
    BodyBuilt =>
        \A k \in ArrayKeys :
            /\ k \in DOMAIN sBody.query <=> sOptions[k] # Undef
            /\ k \in DOMAIN sBody.query => sBody.query[k] = sOptions[k]

C10_Witness ==
    /\ BodyBuilt
    /\ sOptions.filters = Arr(<<>>)
    /\ sOptions.sort = Undef
    /\ sOptions.select = Arr(<<"title">>)
    /\ DOMAIN sBody.query \cap ArrayKeys = {"filters", "select"}
    /\ sBody.query.filters = Arr(<<>>)


\* the input is a number that the body must carry: limit when it is not 0,
\* offset when it is greater than 0
LimitWanted == sOptions.limit.t = "number" /\ sOptions.limit.v # 0
OffsetWanted == sOptions.offset.t = "number" /\ sOptions.offset.v > 0

\* C11: the request body always has index, has limit only when limit is
\* present and not 0, and has offset only when offset is present and
\* greater than 0: an offset of 0 or below is left out.  Stated of the body
\* of either source file.
C11_LimitAndOffsetOnlyWhenSet ==
    BodyBuilt =>
        \A b \in {sBody, sBodyLegacy} :
            /\ "index" \in DOMAIN b.query
            /\ b.query.index = sOptions.index
            /\ "limit" \in DOMAIN b.query <=> LimitWanted
            /\ "offset" \in DOMAIN b.query <=> OffsetWanted

\* the decoded body of a success response
Decoded ==
    /\ Settled
    /\ sTransport.kind = "response"
    /\ sTransport.ok
    /\ ~sTransport.json.throws

\* C12: on a success status search returns the decoded response as the
\* transport delivered it: the same total, range and records.
C12_SuccessReturnedUnchanged ==
    Decoded =>
        /\ sResult.kind = "return"
        /\ sResult.value.total = sTransport.json.value.total
        /\ sResult.value.range = sTransport.json.value.range
        /\ sResult.value.records = sTransport.json.value.records
        /\ sResult.value = sTransport.json.value

C12_Witness ==
    /\ Decoded
    /\ sTransport.json.value.records = <<1>>
    /\ sResult.value = SearchResponse(Num(1), 0, 1, <<1>>)

(***************************************************************************)
(* Claims about searchAll, checked under Spec and FairSpec.                *)
(***************************************************************************)
Completed == pc = "completed"
\* the loop ended by its own test: no failure and no return() or throw()
EndedNormally == pc = "completed" /\ error = Idle /\ closed = "no"
\* the consumer holds a page that carried no record
EmptyPage == pc = "suspendedYield" /\ Len(response.records) = 0

\* C6 as stated: a fully consumed traversal ends, normally or with an
\* error, after finitely many page fetches, whatever the service answers.
C6_AlwaysTerminates == <>Completed

\* C6 amended: with the reported totals bounded, a fully consumed traversal
\* ends, normally or with an error, after finitely many page fetches unless
\* the service keeps answering with pages that carry no record.
C6_TerminatesUnlessEmptyPages == <>Completed \/ []<>EmptyPage

C6_Witness ==
    /\ EndedNormally
    /\ lastPull = "done"
    /\ server = "any"
    /\ nbatches = 2
    /\ totalFetched = 3
    /\ total = Num(2)

\* the total of the last response received, an absent one counting as 0
LastTotal == Coalesce(response.total, 0)

\* C1 as stated: when a traversal ends normally, the lengths of the batches
\* yielded add up to exactly the total of the last response received.
C1_SumEqualsLastTotal ==
    (EndedNormally /\ response.total.t = "number") =>
        Len(delivered) = response.total.v

\* C1 amended: when a traversal ends normally, the lengths of the batches
\* yielded add up to at least the total of the last response received (an
\* absent total counting as 0), and to the generator's totalFetched.
C1_SumAtLeastLastTotal ==
    EndedNormally =>
        /\ Len(delivered) >= LastTotal
        /\ Len(delivered) = totalFetched
        /\ total = response.total

C1_Witness ==
    /\ EndedNormally
    /\ server = "any"
    /\ nbatches = 2
    /\ Len(delivered) = 3
    /\ response.total = Num(2)

\* C2: the first page request has offset 0, left out of the body; every
\* later page request has the range.end of the response before it as its
\* offset, in the call of search and, when the body carries one, on the wire.
C2_OffsetIsPreviousRangeEnd ==
    /\ nreq = 1 =>
          /\ request.options.offset = Num(0)
          /\ "offset" \notin DOMAIN request.body.query
    /\ nreq > 1 =>
          /\ request.options.offset = Num(prevEnd)
          /\ WireOffset(request.body) = prevEnd
          /\ "offset" \in DOMAIN request.body.query <=> prevEnd > 0
    /\ nreq > 0 => request.options.limit = Num(batchSize)

\* a second request at offset 1 after a first page without records whose
\* range.end was 1
C2_Witness ==
    /\ pc = "awaiting"
    /\ nreq = 2
    /\ Len(delivered) = 0
    /\ prevEnd = 1
    /\ request.body.query.offset = Num(1)
    /\ request.options.offset.v # 0 + batchSize

\* the one page received so far reported total = 0
FirstPageTotalZero == nok = 1 /\ response.total = Num(0)

\* C3 as stated: a first page with total = 0 makes searchAll yield no batch
\* and end without error.
C3_ZeroTotalYieldsNoBatch ==
    FirstPageTotalZero => (nbatches = 0 /\ error = Idle)

\* C3 amended: a first page with total = 0 is yielded as the one batch of
\* the traversal (empty when the page has no records); no second request
\* follows and the sequence ends without error at the next pull.
C3_ZeroTotalYieldsOneBatch ==
    FirstPageTotalZero =>
        /\ nbatches = 1
        /\ delivered = response.records
        /\ nreq = 1
        /\ pc \in {"suspendedYield", "completed"}
        /\ error = Idle
        /\ (Completed /\ closed = "no") => lastPull \in {"done", "thrown"}

C3_Witness ==
    /\ FirstPageTotalZero
    /\ Completed
    /\ lastPull = "done"
    /\ nbatches = 1
    /\ nreq = 1
    /\ delivered = <<>>
    /\ error = Idle

\* C4: against a service holding a fixed set of N records, the batches
\* yielded are the records in the service's order without duplicates or
\* gaps, every request asks for the first record not yet yielded, no
\* request follows the page that completes the N records, and a traversal
\* that ends normally has yielded all N.
C4_FixedSetYieldedOnceInOrder ==
    server = "fixed" =>
        /\ delivered = Slice(0, Len(delivered))
        /\ Len(delivered) <= N
        /\ pc = "awaiting" =>
              /\ Len(delivered) < N
              /\ WireOffset(request.body) = Len(delivered)
        /\ error = Idle =>
              nreq = nbatches + (IF pc = "awaiting" THEN 1 ELSE 0)
        /\ EndedNormally => delivered = Slice(0, N)

\* N = 3 in pages of 2 and 1: two requests, the second at offset 2
C4_Witness ==
    /\ server = "fixed"
    /\ N = 3
    /\ EndedNormally
    /\ lastPull = "done"
    /\ nreq = 2
    /\ nbatches = 2
    /\ request.body.query.offset = Num(2)
    /\ delivered = <<1, 2, 3>>

\* C5: a page fetch that fails ends the traversal: the error reaches the
\* consumer at that pull, no batch is yielded for the page, the batches
\* yielded before stay as they are, no request follows, and a later call
\* finds the sequence finished (next() and return() get done, throw() gets
\* the consumer's own error back).
C5_FailureEndsTraversal ==
    [][/\ (pc = "awaiting" /\ pc' = "completed") =>
              /\ error = Idle
              /\ error'.kind = "throw"
              /\ lastPull' = "error"
              /\ delivered' = delivered
              /\ nbatches' = nbatches
              /\ nreq' = nreq
       /\ (error = Idle /\ error' # Idle) =>
              (pc = "awaiting" /\ pc' = "completed")
       /\ error # Idle =>
              /\ error' = error
              /\ pc' = "completed"
              /\ lastPull' \in {"done", "thrown"}
              /\ closed' = "no"
              /\ delivered' = delivered
              /\ nbatches' = nbatches
              /\ nreq' = nreq]_vars

\* the second page failed and the consumer pulled once more
C5_Witness ==
    /\ Completed
    /\ error # Idle
    /\ error.name = "SearchError"
    /\ lastPull = "done"
    /\ nreq = 2
    /\ nbatches = 1
    /\ Len(delivered) = 2

\* the requests of the traversal that have not settled yet, while the
\* counters are below their cap
InFlight == nreq - nok - (IF error = Idle THEN 0 ELSE 1)

\* C14: searchAll is pull-driven and sequential: nothing is requested
\* before the first pull; a request is issued only by a pull on a generator
\* suspended at its start or at a yield, one request per pull; a request is
\* in flight exactly while the generator awaits, never two; a later request
\* follows the delivery of the previous page's batch and a new pull; without
\* a pull (while awaiting, or once completed) no request is issued.
C14_PullDrivenSequential ==
    [][/\ pc = "suspendedStart" => (nreq = 0 /\ request = Idle)
       /\ nreq < MaxCount =>
              InFlight = (IF pc = "awaiting" THEN 1 ELSE 0)
       /\ (request' # request \/ nreq' # nreq) =>
              /\ pc \in {"suspendedStart", "suspendedYield"}
              /\ pc' = "awaiting"
              /\ lastPull' = "pending"
              /\ nreq' = Bump(nreq)
              /\ delivered' = delivered
       /\ (request # Idle /\ request' # request) =>
              /\ pc = "suspendedYield"
              /\ lastPull = "batch"
              /\ response.range.start = WireOffset(request.body)
              /\ nbatches >= 1
       /\ pc \in {"awaiting", "completed"} =>
              (request' = request /\ nreq' = nreq)
      ]_vars

C14_Witness ==
    /\ pc = "awaiting"
    /\ lastPull = "pending"
    /\ nreq = 2
    /\ nbatches = 1
    /\ InFlight = 1
    /\ WireOffset(request.body) = 1

\* C15: a successful response whose total is undefined, null or 0 is the
\* last page: its records are yielded as one batch by the settlement of the
\* one request issued for it, and the next pull ends the traversal without
\* an error and without another request, however many records the page had
\* (so does a return() or throw() of the consumer in place of that pull).
C15_FalsyTotalStops ==
    [][/\ (pc = "awaiting" /\ pc' = "suspendedYield"
              /\ ~Truthy(response'.total)) =>
              /\ delivered' = delivered \o response'.records
              /\ nbatches' = Bump(nbatches)
              /\ nreq' = nreq
              /\ request' = request
       /\ (pc = "suspendedYield" /\ ~Truthy(response.total)) =>
              /\ pc' \in {"suspendedYield", "completed"}
              /\ nreq' = nreq
              /\ request' = request
              /\ delivered' = delivered
              /\ error' = Idle
       /\ (pc = "suspendedYield" /\ ~Truthy(response.total)
              /\ lastPull' # lastPull) =>
              /\ pc' = "completed"
              /\ closed' = "no" => Coalesce(total', 0) = 0
      ]_vars

C15_Witness ==
    /\ EndedNormally
    /\ lastPull = "done"
    /\ response.total = Null
    /\ Len(response.records) = 2
    /\ nreq = 1
    /\ nbatches = 1
    /\ delivered = response.records

\* C16 as stated: in every reachable state, the state suspended at a
\* yield included, totalFetched is the number of records in the batches
\* yielded so far.
C16_TotalFetchedIsSumOfYielded == totalFetched = Len(delivered)

\* the batch handed over at the yield where the generator is suspended, or
\* was when the consumer ended the traversal, has not been counted
Uncounted ==
    IF pc = "suspendedYield" \/ (closed # "no" /\ response # Idle)
    THEN Len(response.records) ELSE 0

\* C16: totalFetched is the number of records yielded so far in every state
\* but the one suspended at a yield, where the batch just handed over is
\* not counted yet: it is added when the consumer pulls again, and never
\* if the consumer ends the traversal at that yield.
C16_TotalFetchedCountsAfterPull ==
    /\ totalFetched + Uncounted = Len(delivered)
    /\ (pc # "suspendedYield" /\ closed = "no") =>
            totalFetched = Len(delivered)
    /\ pc = "suspendedYield" =>
            totalFetched + Len(response.records) = Len(delivered)

C16_Witness ==
    /\ pc = "suspendedYield"
    /\ nbatches = 2
    /\ totalFetched = 1
    /\ Len(response.records) = 2
    /\ Len(delivered) = 3

\* the fields of a query that searchAll takes from its caller
CallerKeys == {"index", "filters", "sort", "select"}

\* C17: every page request carries limit 100 and the caller's index,
\* filters, sort and select, in the options handed to search and in the
\* body sent; two successive requests differ in nothing but the offset; the
\* caller's options are never modified.
C17_RequestsCarryCallersQuery ==
    [][/\ request # Idle =>
              /\ \A k \in CallerKeys : request.options[k] = options[k]
              /\ request.options.limit = Num(100)
              /\ request.body.query.limit = Num(100)
              /\ request.body.query.index = options.index
              /\ \A k \in CallerKeys \ {"index"} :
                    IF Truthy(options[k])
                    THEN /\ k \in DOMAIN request.body.query
                         /\ request.body.query[k] = options[k]
                    ELSE k \notin DOMAIN request.body.query
       /\ (request # Idle /\ request' # request) =>
              /\ \A k \in DOMAIN request.options \ {"offset"} :
                    request'.options[k] = request.options[k]
              /\ \A k \in DOMAIN request.body.query \ {"offset"} :
                    /\ k \in DOMAIN request'.body.query
                    /\ request'.body.query[k] = request.body.query[k]
              /\ DOMAIN request'.body.query \ {"offset"}
                    = DOMAIN request.body.query \ {"offset"}
       /\ options' = options
      ]_vars

C17_Witness ==
    /\ nreq = 2
    /\ request.options.offset = Num(1)
    /\ request.body.query.offset = Num(1)
    /\ options.filters = Arr(<<AFilter>>)
    /\ request.body.query.filters = Arr(<<AFilter>>)
    /\ request.body.query.sort = Arr(<<ASort>>)
    /\ request.body.query.select = Arr(<<>>)
    /\ request.body.query.limit = Num(100)

\* the last response reports more records than have been yielded
GapOpen == response # Idle /\ Len(delivered) < LastTotal

Max(a, b) == IF a < b THEN b ELSE a

\* a traversal that goes on for ever keeps getting responses whose total
\* is above the number of records yielded
RunsForeverOnlyWithOpenGap == <>Completed \/ <>[]GapOpen

\* C18 as stated: against a service whose pages all carry a record and
\* whose totals are at most N, the traversal makes at most N successful
\* fetches; and a traversal goes on for ever only while the reported total
\* stays above the number of records yielded.
C18_AtMostNFetches ==
    /\ [](server = "bounded" => nok <= N)
    /\ RunsForeverOnlyWithOpenGap

\* C18: against a service whose pages all carry a record and whose totals
\* are at most N, the traversal makes at most N successful fetches, and one
\* when N is 0 (the first page is fetched before any total is known); and a
\* traversal goes on for ever only while the reported total stays above the
\* number of records yielded.
C18_AtMostNFetchesButOne ==
    /\ [](server = "bounded" => nok <= Max(N, 1))
    /\ RunsForeverOnlyWithOpenGap

C18_Witness ==
    /\ EndedNormally
    /\ server = "bounded"
    /\ N = MaxTotal
    /\ nok = N
    /\ Len(delivered) = N

\* C19: the batches yielded are as many as the fetches that succeeded:
\* the settlement of a successful fetch yields its records as one batch,
\* empty or not, and leaves the locals alone; so a traversal whose first
\* fetch succeeded has yielded a batch; totalFetched, offset and total
\* change, and the loop test is made, only when the consumer pulls again
\* after a batch; a return() or throw() at the yield ends the traversal
\* without them.
C19_OneBatchPerSuccessfulFetch ==
    [][/\ nbatches = nok
       /\ nok >= 1 => nbatches >= 1
       /\ nok' # nok =>
              /\ pc = "awaiting"
              /\ pc' = "suspendedYield"
              /\ lastPull' = "batch"
              /\ nok' = Bump(nok)
              /\ nbatches' = Bump(nbatches)
              /\ delivered' = delivered \o response'.records
              /\ <<totalFetched, offset, total>>'
                    = <<totalFetched, offset, total>>
       /\ (pc = "awaiting" /\ pc' = "suspendedYield") => nbatches' = nok'
       /\ closed' # closed =>
              /\ pc \in {"suspendedStart", "suspendedYield"}
              /\ pc' = "completed"
              /\ <<totalFetched, offset, total, nbatches, nok, nreq>>'
                    = <<totalFetched, offset, total, nbatches, nok, nreq>>
       /\ (<<totalFetched, offset, total>>' # <<totalFetched, offset, total>>
              \/ (pc = "suspendedYield" /\ pc' # pc /\ closed' = closed)) =>
              /\ pc = "suspendedYield"
              /\ lastPull = "batch"
              /\ lastPull' \in {"pending", "done"}
              /\ totalFetched' = NextTotalFetched(totalFetched, response)
              /\ total' = response.total
              /\ pc' = IF Continue(totalFetched', total') THEN "awaiting"
                       ELSE "completed"
              /\ nbatches' = nbatches
      ]_vars

C19_Witness ==
    /\ EmptyPage
    /\ nok = 2
    /\ nbatches = 2
    /\ lastPull = "batch"
    /\ totalFetched = 1
    /\ Len(delivered) = 1

(***************************************************************************)
(* Claims about two interleaved traversals, checked under ConcSpec.        *)
(***************************************************************************)
\* the traversal of options o run alone by a consumer that pulls again
\* after every batch, given the settlements h of its requests
RECURSIVE Alone(_, _)
Alone(o, h) ==
    IF h = <<>>
    THEN [NewTraversal(o) EXCEPT
            !.pc = "awaiting",
            !.reqs = <<Body(PageOptions(o, 0))>>]
    ELSE LET p == Alone(o, SubSeq(h, 1, Len(h) - 1))
             r == h[Len(h)]
         IN  IF r.kind = "throw"
             THEN [p EXCEPT !.pc = "completed", !.hist = h]
             ELSE LET tf == NextTotalFetched(p.totalFetched, r.value)
                      off == NextOffset(p.offset, r.value)
                      go == Continue(tf, r.value.total)
                  IN  [options |-> o,
                       pc |-> IF go THEN "awaiting" ELSE "completed",
                       offset |-> off,
                       totalFetched |-> tf,
                       total |-> r.value.total,
                       response |-> r.value,
                       reqs |-> IF go
                                THEN Append(p.reqs, Body(PageOptions(o, off)))
                                ELSE p.reqs,
                       batches |-> Append(p.batches, r.value.records),
                       hist |-> h,
                       closed |-> "no"]

\* the traversal of options o run alone up to the yield of the last
\* settlement of h, where the generator is suspended with the locals of the
\* pull before
AloneAtYield(o, h) ==
    LET p == Alone(o, SubSeq(h, 1, Len(h) - 1)) IN
    [p EXCEPT !.pc = "suspendedYield",
              !.response = h[Len(h)].value,
              !.batches = Append(@, h[Len(h)].value.records),
              !.hist = h]

\* the traversal run alone where traversal i is: before its first pull,
\* at a yield, or behind its latest pull
AloneAt(i) ==
    LET o == tr[i].options
        h == tr[i].hist
        at == IF tr[i].closed = "no" THEN tr[i].pc
              ELSE IF h = <<>> THEN "suspendedStart" ELSE "suspendedYield"
    IN  CASE at = "suspendedStart" -> NewTraversal(o)
          [] at = "suspendedYield" -> AloneAtYield(o, h)
          [] OTHER -> Alone(o, h)

\* C13: of two traversals interleaved in any order on one SDK instance,
\* each one's requests (with their offsets), yielded batches and locals are
\* those of the same traversal run alone on the settlements of its own
\* requests and pulled, or ended by its consumer, at the same points.
C13_TraversalsIndependent ==
    \A i \in DOMAIN tr :
        IF tr[i].closed = "no"
        THEN tr[i] = AloneAt(i)
        ELSE tr[i] = [AloneAt(i) EXCEPT !.pc = "completed",
                                        !.closed = tr[i].closed]

C13_Witness ==
    /\ DOMAIN tr = Travs
    /\ tr[1].pc = "awaiting"
    /\ Len(tr[1].reqs) = 2
    /\ tr[1].offset = 1
    /\ tr[2].pc = "suspendedYield"
    /\ Len(tr[2].batches) = 2
    /\ tr[2].offset = 0
    /\ tr[2].options # tr[1].options

=============================================================================
